---- MODULE Spec2Model ----
(***************************************************************************)
(* op-mtr: traceroute discovery followed by per-hop probing, as run by     *)
(* OPMTR.RunMTRWithNoRetryPing, OPMTR.RunMTR, OPMTR.RunMTRWithCocurrentPing *)
(* (package mtr with the OPMTR type) and by the package-level RunMTR of    *)
(* mtr/mtr.go.                                                             *)
(***************************************************************************)
EXTENDS Integers, Sequences, FiniteSets, TLC

(***************************************************************************)
(* float64 (IEEE 754 binary64, round to nearest, ties to even) on the      *)
(* non-negative finite values the program computes.  A value is [m, e]: m  *)
(* the 53-bit significand as three limbs of 20 bits, least significant     *)
(* first, and e the exponent of its last bit: the value is m * 2^e.  Zero  *)
(* is FZero.  A wide natural is a sequence of limbs of any length.         *)
(* An operator that uses an argument more than once binds it by value,     *)
(* CHOOSE val \in {body : x \in {x0}} : TRUE, so that the argument is        *)
(* evaluated once.                                                         *)
(***************************************************************************)
LimbBits == 20
Base == 2 ^ LimbBits
MantBits == 53

Pow2(n) == 2 ^ n
Least(a, b) == IF a < b THEN a ELSE b

RECURSIVE WTrim(_)
WTrim(w0) ==
    CHOOSE val \in {
        IF Len(w) > 1 /\ w[Len(w)] = 0 THEN WTrim(SubSeq(w, 1, Len(w) - 1)) ELSE w
      : w \in {w0}} : TRUE

RECURSIVE WPad(_, _)
WPad(w0, n0) ==
    CHOOSE val \in {
        IF Len(w) < n THEN WPad(Append(w, 0), n) ELSE w
      : w \in {w0}, n \in {n0}} : TRUE

WIsZero(w) == \A k \in 1..Len(w) : w[k] = 0
WIsOdd(w) == w[1] % 2 = 1

RECURSIVE WMulFrom(_, _, _, _)
WMulFrom(w0, k0, pos0, carry0) ==
    CHOOSE val \in {
        IF pos > Len(w)
        THEN <<carry>>
        ELSE <<(w[pos] * k + carry) % Base>>
                \o WMulFrom(w, k, pos + 1, (w[pos] * k + carry) \div Base)
      : w \in {w0}, k \in {k0}, pos \in {pos0}, carry \in {carry0}} : TRUE

\* w * k, for 0 <= k < 2048
WMulSmall(w, k) == WTrim(WMulFrom(w, k, 1, 0))

Limb(w, pos) == IF pos <= Len(w) THEN w[pos] ELSE 0

RECURSIVE WAddFrom(_, _, _, _)
WAddFrom(a0, b0, pos0, carry0) ==
    CHOOSE val \in {
        IF pos > Len(a) /\ pos > Len(b)
        THEN <<carry>>
        ELSE <<(Limb(a, pos) + Limb(b, pos) + carry) % Base>>
                \o WAddFrom(a, b, pos + 1, (Limb(a, pos) + Limb(b, pos) + carry) \div Base)
      : a \in {a0}, b \in {b0}, pos \in {pos0}, carry \in {carry0}} : TRUE

WAdd(a, b) == WTrim(WAddFrom(a, b, 1, 0))

\* floor(w / n) as [q, r], r the remainder, for 0 < n < 2048; the limbs of
\* q are computed from the most significant one down
WDivCons(rest0, digit0) ==
    CHOOSE val \in {
        [q |-> Append(rest.q, digit), r |-> rest.r]
      : rest \in {rest0}, digit \in {digit0}} : TRUE
RECURSIVE WDivFrom(_, _, _, _)
WDivFrom(w0, n0, pos0, rem0) ==
    CHOOSE val \in {
        IF pos = 0
        THEN [q |-> <<>>, r |-> rem]
        ELSE WDivCons(WDivFrom(w, n, pos - 1, (rem * Base + w[pos]) % n),
                      (rem * Base + w[pos]) \div n)
      : w \in {w0}, n \in {n0}, pos \in {pos0}, rem \in {rem0}} : TRUE

Trimmed(d0) ==
    CHOOSE val \in {
        [q |-> WTrim(d.q), r |-> d.r]
      : d \in {d0}} : TRUE
WDivSmall(w0, n0) ==
    CHOOSE val \in {
        Trimmed(WDivFrom(w, n, Len(w), 0))
      : w \in {w0}, n \in {n0}} : TRUE

\* w * 2^s
RECURSIVE WShl(_, _)
WShl(w0, s0) ==
    CHOOSE val \in {
        IF s >= LimbBits THEN <<0>> \o WShl(w, s - LimbBits)
        ELSE IF s > 10 THEN WShl(WMulSmall(w, Pow2(10)), s - 10)
        ELSE WMulSmall(w, Pow2(s))
      : w \in {w0}, s \in {s0}} : TRUE

\* floor(w / 2^s) as [q, sticky], sticky: a nonzero bit was shifted out
Stick(x0, b0) ==
    CHOOSE val \in {
        [q |-> x.q, sticky |-> x.sticky \/ b]
      : x \in {x0}, b \in {b0}} : TRUE
RECURSIVE WShr(_, _)
RECURSIVE WShrBits(_, _)
WShrBits(d0, s0) ==
    CHOOSE val \in {
        Stick(WShr(d.q, s), d.r # 0)
      : d \in {d0}, s \in {s0}} : TRUE
WShr(w0, s0) ==
    CHOOSE val \in {
        IF s = 0 THEN [q |-> WTrim(w), sticky |-> FALSE]
        ELSE IF s >= LimbBits
        THEN IF Len(w) = 1
             THEN [q |-> <<0>>, sticky |-> w[1] # 0]
             ELSE Stick(WShr(Tail(w), s - LimbBits), w[1] # 0)
        ELSE WShrBits(WDivSmall(w, Pow2(Least(s, 10))), s - Least(s, 10))
      : w \in {w0}, s \in {s0}} : TRUE

LimbLen(x0) ==
    CHOOSE val \in {
        IF x = 0 THEN 0 ELSE CHOOSE n \in 1..LimbBits : Pow2(n - 1) <= x /\ x < Pow2(n)
      : x \in {x0}} : TRUE
TrimLen(t0) ==
    CHOOSE val \in {
        LimbBits * (Len(t) - 1) + LimbLen(t[Len(t)])
      : t \in {t0}} : TRUE
WBitLen(w) == TrimLen(WTrim(w))

RECURSIVE WLessFrom(_, _, _)
WLessFrom(a, b, pos) ==
    IF pos = 0 THEN FALSE
    ELSE IF a[pos] # b[pos] THEN a[pos] < b[pos]
    ELSE WLessFrom(a, b, pos - 1)

FZero == [m |-> <<0, 0, 0>>, e |-> 0]
FIsZero(x) == WIsZero(x.m)

\* the float64 nearest to w * 2^e, ties to even; sticky: w is the floor of
\* a value that has a nonzero fraction
FFix(m0, e0) ==
    CHOOSE val \in {
        IF WBitLen(m) > MantBits
        THEN [m |-> WPad(WDivSmall(m, 2).q, 3), e |-> e + 1]
        ELSE [m |-> WPad(m, 3), e |-> e]
      : m \in {m0}, e \in {e0}} : TRUE
FUp(h0, sticky0, e0) ==
    CHOOSE val \in {
        FFix(IF h.r = 1 /\ (sticky \/ WIsOdd(h.q)) THEN WAdd(h.q, <<1>>) ELSE h.q, e)
      : h \in {h0}, sticky \in {sticky0}, e \in {e0}} : TRUE
FCut(g0, sticky0, e0) ==
    CHOOSE val \in {
        FUp(WDivSmall(g.q, 2), sticky \/ g.sticky, e)
      : g \in {g0}, sticky \in {sticky0}, e \in {e0}} : TRUE
FNorm(w0, sticky0, e0, bits0) ==
    CHOOSE val \in {
        IF bits <= MantBits
        THEN [m |-> WPad(WShl(w, MantBits - bits), 3), e |-> e - (MantBits - bits)]
        ELSE FCut(WShr(w, bits - MantBits - 1), sticky, e + (bits - MantBits))
      : w \in {w0}, sticky \in {sticky0}, e \in {e0}, bits \in {bits0}} : TRUE
FRound(w0, sticky0, e0) ==
    CHOOSE val \in {
        IF WIsZero(w) THEN FZero ELSE FNorm(WTrim(w), sticky, e, WBitLen(w))
      : w \in {w0}, sticky \in {sticky0}, e \in {e0}} : TRUE

\* float64(n) for an integer 0 <= n < 2^31
FFromInt(n) == FRound(<<n % Base, n \div Base>>, FALSE, 0)

\* the exact value of x*k + y as [w, e], the wide natural w times 2^e
Aligned(xm, xe, ym, ye, e) == [w |-> WAdd(WShl(xm, xe - e), WShl(ym, ye - e)), e |-> e]
WSum(xm0, xe0, y0) ==
    CHOOSE val \in {
        IF WIsZero(xm) THEN [w |-> y.m, e |-> y.e]
        ELSE IF FIsZero(y) THEN [w |-> xm, e |-> xe]
        ELSE Aligned(xm, xe, y.m, y.e, Least(xe, y.e))
      : xm \in {xm0}, xe \in {xe0}, y \in {y0}} : TRUE

\* floor(w / (divs[1] * ... * divs[n])) with the sticky flag
RECURSIVE WDivAll(_, _, _)
WDivAllNext(d0, sticky0, divs0) ==
    CHOOSE val \in {
        WDivAll(d.q, sticky \/ d.r # 0, Tail(divs))
      : d \in {d0}, sticky \in {sticky0}, divs \in {divs0}} : TRUE
WDivAll(w0, sticky0, divs0) ==
    CHOOSE val \in {
        IF divs = <<>> THEN [q |-> w, sticky |-> sticky]
        ELSE WDivAllNext(WDivSmall(w, Head(divs)), sticky, divs)
      : w \in {w0}, sticky \in {sticky0}, divs \in {divs0}} : TRUE

\* one float64 operation: (x*k + y) / (divs[1] * ... * divs[n] * 2^shift),
\* rounded once; k and the divisors are integers below 2048
GuardBits == 2 * LimbBits
Rounded(d0, e0) ==
    CHOOSE val \in {
        FRound(d.q, d.sticky, e)
      : d \in {d0}, e \in {e0}} : TRUE
Quotient(s0, o0) ==
    CHOOSE val \in {
        Rounded(WDivAll(WShl(s.w, GuardBits), FALSE, o.divs), s.e - GuardBits - o.shift)
      : s \in {s0}, o \in {o0}} : TRUE
FOp(x0, o0) ==
    CHOOSE val \in {
        Quotient(WSum(WMulSmall(x.m, o.k), x.e, o.y), o)
      : x \in {x0}, o \in {o0}} : TRUE

Mul(k) == [k |-> k, y |-> FZero, divs |-> <<>>, shift |-> 0]
Add(y) == [k |-> 1, y |-> y, divs |-> <<>>, shift |-> 0]
Div(n) == [k |-> 1, y |-> FZero, divs |-> <<n>>, shift |-> 0]
MulAdd(k, y) == [k |-> k, y |-> y, divs |-> <<>>, shift |-> 0]
\* 1e9 = 125 * 125 * 125 * 2^9
DivE9 == [k |-> 1, y |-> FZero, divs |-> <<125, 125, 125>>, shift |-> 9]

\* the operations ops applied to x one after the other, each rounded
RECURSIVE FEval(_, _)
FEval(x, ops) == IF ops = <<>> THEN x ELSE FEval(FOp(x, Head(ops)), Tail(ops))

FLess(x0, y0) ==
    CHOOSE val \in {
        IF FIsZero(y) THEN FALSE
        ELSE IF FIsZero(x) THEN TRUE
        ELSE IF x.e # y.e THEN x.e < y.e
        ELSE WLessFrom(x.m, y.m, 3)
      : x \in {x0}, y \in {y0}} : TRUE

FLeq(x, y) == ~FLess(y, x)

\* rtt := r.RTT.Seconds() * 1000, for a Duration d below one second:
\* Seconds() is float64(sec) + float64(nsec)/1e9 with sec = 0
RttMs(d) == FEval(FFromInt(d), <<DivE9, Mul(1000)>>)

(***************************************************************************)
(* Bounds of the model                                                     *)
(***************************************************************************)
MaxHopsBound == 3        \* Tracer.MaxHops ranges over 1..MaxHopsBound
MaxUnknownsBound == 2    \* op.MaxUnknowns ranges over 1..MaxUnknownsBound
MaxOverlap == 2          \* trace callbacks running at once
MaxPingCount == 6        \* op.PingCount ranges over 1..MaxPingCount
MaxWork == 1             \* (MaxHops - 1) * (PingCount - 1) is at most MaxWork,
MaxSeqWork == 2          \* and at most MaxSeqWork in OPMTR.RunMTR
MaxAnswers == 2          \* probes answered by a reply in one run
MaxIP == 2               \* addresses 1..MaxIP; address 1 is the destination

(***************************************************************************)
(* Values                                                                  *)
(***************************************************************************)
Second == 1000                       \* time.Second, durations of timeouts in ms
LongTimeout == 4 * Second + 500     \* a base timeout of 4.5 s
Timeouts == {Second, LongTimeout}
RTTs == {700000, 1000000}            \* reply.RTT in ns (0.7 ms and 1 ms)
IPs == 1..MaxIP
NilIP == 0

\* strings: <<form, address>>; net.IP.String() prints the dotted form "v4",
\* "mapped" is another text of the same address ("::ffff:a.b.c.d")
IPString(ip) == <<"v4", ip>>
UnknownHost == <<"???", 0>>
DstStrings == {<<"v4", 1>>, <<"mapped", 1>>, <<"bad", 0>>}
ParseIP(s) == IF s[1] \in {"v4", "mapped"} THEN s[2] ELSE NilIP

OpNoRetry == "OPMTR.RunMTRWithNoRetryPing"
OpSeq == "OPMTR.RunMTR"
OpConc == "OPMTR.RunMTRWithCocurrentPing"
OpPkg == "RunMTR"
Ops == {OpNoRetry, OpSeq, OpConc, OpPkg}
Concurrent(o) == o \in {OpConc, OpPkg}

NoReply == [IP |-> NilIP, RTT |-> 0]
Replies == [IP : IPs, RTT : RTTs]
\* what one probe can come to: a reply, a timeout, or an error of the session
PingOutcomes == [kind : {"reply"}, IP : IPs, RTT : RTTs]
                  \cup [kind : {"timeout", "error"}, IP : {NilIP}, RTT : {0}]
\* the probe transport: any outcome for any probe, or the outcome fixed by
\* the probe's ttl (a fixed function of (ip, ttl, timeout) that looks at the
\* ttl alone)
AnyNet == [fixed |-> FALSE, f |-> <<>>]
NetOutcomes == {o \in PingOutcomes : o.kind = "timeout" \/ (o.kind = "reply" /\ o.RTT = 700000)}
FixedNets == {[fixed |-> TRUE, f |-> g] : g \in [1..2 -> NetOutcomes]}
NoProbe == [j |-> 0, ip |-> UnknownHost, ttl |-> 0, timeout |-> 0, api |-> "none",
            res |-> "none", from |-> NilIP]

VARIABLES
    op,           \* the run operation invoked
    dst,          \* its dst string
    tracer,       \* Tracer.Config: MaxHops, Timeout
    MaxUnknowns,  \* op.MaxUnknowns
    PingCount,    \* op.PingCount
    fma,          \* the build fuses x*y + z into one rounding
    net,          \* the probe transport
    overlap,      \* Tracer.Trace runs the callbacks of its replies concurrently
    pc,           \* position of the run
    routes,       \* routes map[int]*Reply
    hups,         \* hups map[int]*MTRHup
    i,            \* loop variable of the discovery loop
    unknownCount,
    w,            \* per hop: the variables of its probing loop
    probe,        \* per hop: the last probe issued for it in its loop
    answers,      \* the number of probes answered by a reply so far
    report,
    err,
    good,         \* per hop: the round trips of the replies it has had
    calls,        \* the trace callbacks that have read routes and not yet written
    first         \* per TTL: the first reply Tracer.Trace delivered

vars == <<op, dst, tracer, MaxUnknowns, PingCount, fma, net, pc, routes, hups, i,
          unknownCount, w, probe, answers, report, err, good, overlap, calls, first>>
config == <<op, dst, tracer, MaxUnknowns, PingCount, fma, net, overlap>>
callbacks == <<calls, first>>

dstIP == ParseIP(dst)
hupsLen == Cardinality(DOMAIN hups)
EmptyMap == [t \in {} |-> 0]
EmptyReport == [Time |-> 0, Dst |-> <<"", 0>>, Count |-> 0, Hups |-> <<>>]

\* the runs explored: every operation on every configuration within the
\* bounds; a dst text other than the dotted one is run through discovery
\* alone, a fused build on one hop alone, the long base timeout on
\* OPMTR.RunMTR over two hops, and a fixed transport on OPMTR.RunMTR and
\* OPMTR.RunMTRWithCocurrentPing over two hops with one probe each
Configs ==
    {c \in [op : Ops, dst : DstStrings, MaxHops : 1..MaxHopsBound,
            MaxUnknowns : 1..MaxUnknownsBound, PingCount : 1..MaxPingCount,
            Timeout : Timeouts, fma : BOOLEAN, net : {AnyNet} \cup FixedNets,
            overlap : BOOLEAN] :
        /\ (c.MaxHops - 1) * (c.PingCount - 1)
               <= (IF c.op = OpSeq THEN MaxSeqWork ELSE MaxWork)
        /\ c.dst # IPString(ParseIP(c.dst)) => c.PingCount = 1
        /\ c.fma => c.MaxHops = 1
        /\ c.Timeout # Second =>
               c.op = OpSeq /\ c.MaxHops = 2 /\ c.PingCount = 3 /\ c.MaxUnknowns = 1
        /\ c.net.fixed =>
               /\ c.op \in {OpSeq, OpConc}
               /\ c.MaxHops = 2 /\ c.PingCount = 2 /\ c.MaxUnknowns = 2
               /\ c.dst = IPString(ParseIP(c.dst)) /\ ~c.fma /\ c.Timeout = Second
        /\ c.overlap =>
               /\ c.MaxHops = 1 /\ c.PingCount = 1 /\ c.MaxUnknowns = 2
               /\ c.dst = IPString(ParseIP(c.dst)) /\ ~c.fma /\ c.Timeout = Second
               /\ ~c.net.fixed}

Init ==
    /\ \E c \in Configs :
          /\ op = c.op
          /\ dst = c.dst
          /\ tracer = [MaxHops |-> c.MaxHops, Timeout |-> c.Timeout]
          /\ MaxUnknowns = c.MaxUnknowns
          /\ PingCount = c.PingCount
          /\ fma = c.fma
          /\ net = c.net
          /\ overlap = c.overlap
    /\ pc = "start"
    /\ routes = EmptyMap
    /\ hups = EmptyMap
    /\ i = 0
    /\ unknownCount = 0
    /\ w = EmptyMap
    /\ probe = EmptyMap
    /\ answers = 0
    /\ report = EmptyReport
    /\ err = "nil"
    /\ good = EmptyMap
    /\ calls = <<>>
    /\ first = EmptyMap

(***************************************************************************)
(* Entry, trace and discovery                                              *)
(***************************************************************************)
\* dstIP == nil: return MTRReport{}, "Unknown dest IP"
Start ==
    /\ pc = "start"
    /\ IF dstIP = NilIP
       THEN /\ pc' = "done"
            /\ err' = "Unknown dest IP"
            /\ report' = EmptyReport
       ELSE /\ pc' = "trace"
            /\ report' = [Time |-> 0, Dst |-> dst, Count |-> PingCount, Hups |-> <<>>]
            /\ err' = err
    /\ UNCHANGED <<config, callbacks, good, routes, hups, i, unknownCount, w, probe, answers>>

\* the callback given to Tracer.Trace
OnReply(rs, reply) ==
    IF reply.Hops \in DOMAIN rs
    THEN rs
    ELSE rs @@ (reply.Hops :> [IP |-> reply.IP, RTT |-> reply.RTT])

\* the reply delivered first for its TTL
Delivered(fs, reply) ==
    IF reply.Hops \in DOMAIN fs
    THEN fs
    ELSE fs @@ (reply.Hops :> [IP |-> reply.IP, RTT |-> reply.RTT])

\* a callback that runs from its test to its end with no other in between
TraceReply ==
    /\ pc = "trace"
    /\ \E ttl \in 1..tracer.MaxHops, r \in Replies :
          /\ routes' = OnReply(routes, [Hops |-> ttl, IP |-> r.IP, RTT |-> r.RTT])
          /\ first' = Delivered(first, [Hops |-> ttl, IP |-> r.IP, RTT |-> r.RTT])
    /\ UNCHANGED <<config, calls, good, pc, hups, i, unknownCount, w, probe, answers, report, err>>

\* a callback finds no entry for its TTL: if ex, ok := routes[reply.Hops]; !ok
TraceCall ==
    /\ pc = "trace"
    /\ overlap
    /\ Len(calls) < MaxOverlap
    /\ \E ttl \in 1..tracer.MaxHops, r \in Replies :
          /\ ttl \notin DOMAIN routes
          /\ calls' = Append(calls, [Hops |-> ttl, IP |-> r.IP, RTT |-> r.RTT])
          /\ first' = Delivered(first, [Hops |-> ttl, IP |-> r.IP, RTT |-> r.RTT])
    /\ UNCHANGED <<config, good, pc, routes, hups, i, unknownCount, w, probe, answers, report, err>>

\* routes[reply.Hops] = reply
Store(rs, reply) ==
    [t \in DOMAIN rs \cup {reply.Hops} |->
        IF t = reply.Hops THEN [IP |-> reply.IP, RTT |-> reply.RTT] ELSE rs[t]]
Without(cs, k) == [n \in 1..(Len(cs) - 1) |-> IF n < k THEN cs[n] ELSE cs[n + 1]]

\* a callback that found no entry writes its reply; two writes of the map at
\* once are a data race, which the runtime may end with the fatal error
\* "concurrent map writes"
TraceStore ==
    /\ pc = "trace"
    /\ calls # <<>>
    /\ \/ /\ \E k \in DOMAIN calls :
                /\ routes' = Store(routes, calls[k])
                /\ calls' = Without(calls, k)
          /\ UNCHANGED <<pc, err>>
       \/ /\ Len(calls) >= 2
          /\ pc' = "done"
          /\ err' = "concurrent map writes"
          /\ UNCHANGED <<routes, calls>>
    /\ UNCHANGED <<config, first, good, hups, i, unknownCount, w, probe, answers, report>>

\* Trace returns an error: return report, err
TraceFail ==
    /\ pc = "trace"
    /\ pc' = "done"
    /\ err' = "trace error"
    /\ UNCHANGED <<config, callbacks, good, routes, hups, i, unknownCount, w, probe, answers, report>>

\* Trace returns nil: report.Time = time.Now().Unix(); the loop starts at i = 1
TraceDone ==
    /\ pc = "trace"
    /\ calls = <<>>
    /\ pc' = "discover"
    /\ report' = [report EXCEPT !.Time = 1]
    /\ i' = 1
    /\ unknownCount' = 0
    /\ UNCHANGED <<config, callbacks, good, routes, hups, w, probe, answers, err>>

KnownRecord(t, host, rtt) ==
    [Count |-> t, Host |-> host, Loss |-> FZero, LossPoint |-> 0,
     Snt |-> 1, Last |-> rtt, Avg |-> rtt, Best |-> rtt, Wrst |-> rtt]
KnownHup(t, r) ==
    KnownRecord(t, IPString(r.IP), RttMs(r.RTT))

UnknownHup(t) ==
    [Count |-> t, Host |-> UnknownHost, Loss |-> FZero, LossPoint |-> 1,
     Snt |-> 1, Last |-> FZero, Avg |-> FZero, Best |-> FZero, Wrst |-> FZero]

\* the round trips of the replies a hop has had, in nanoseconds: how many,
\* their sum, the least, the greatest and the latest (rtt := rp.RTT)
NoGood == [n |-> 0, sum |-> 0, min |-> 0, max |-> 0, last |-> 0]
Good(g, rtt) ==
    [n    |-> g.n + 1,
     sum  |-> g.sum + rtt,
     min  |-> IF g.n = 0 \/ rtt < g.min THEN rtt ELSE g.min,
     max  |-> IF g.n = 0 \/ rtt > g.max THEN rtt ELSE g.max,
     last |-> rtt]

\* h.Loss = float64(h.LossPoint) / float64(h.Snt)
LossOf(h) == FEval(FFromInt(h.LossPoint), <<Div(h.Snt)>>)

\* the string the reply's address is compared with to see the destination
DstText(o, d) == IF o = OpPkg THEN d ELSE IPString(ParseIP(d))

\* the variables of one hop's probing loop, as declared before the loop
Locals(timeout) ==
    [pc |-> "loop", j |-> 1, to |-> timeout, retryTime |-> 0, workTimeout |-> 0,
     comeback |-> FALSE, rp |-> NoReply]
DoneLocals ==
    [pc |-> "done", j |-> 0, to |-> 0, retryTime |-> 0, workTimeout |-> 0,
     comeback |-> FALSE, rp |-> NoReply]

\* DiscoverStop with the loop bound i < MaxHops in place of i <= MaxHops
DiscoverStopEarly(o, atDst, uc, maxUnknowns, host, d, t, maxHops) ==
    \/ atDst
    \/ uc >= maxUnknowns
    \/ (o # OpPkg /\ host = d)
    \/ t + 1 >= maxHops

\* the loop is left after hop t: destination reached, unknown cutoff, the
\* record's Host equal to the dst text, or t was the last TTL
DiscoverStop(o, atDst, uc, maxUnknowns, host, d, t, maxHops) ==
    \/ atDst
    \/ uc >= maxUnknowns
    \/ (o # OpPkg /\ host = d)
    \/ t + 1 > maxHops

\* one iteration of the discovery loop
Discover ==
    /\ pc = "discover"
    /\ LET known == i \in DOMAIN routes
           h0    == IF known THEN KnownHup(i, routes[i]) ELSE UnknownHup(i)
           uc    == IF known THEN 0 ELSE unknownCount + 1
           atDst == known /\ IPString(routes[i].IP) = DstText(op, dst)
           hs    == hups @@ (i :> IF atDst THEN h0 ELSE [h0 EXCEPT !.Loss = LossOf(h0)])
       IN  /\ hups' = hs
           /\ good' = good @@ (i :> IF known THEN Good(NoGood, routes[i].RTT) ELSE NoGood)
           /\ unknownCount' = uc
           /\ IF DiscoverStop(op, atDst, uc, MaxUnknowns, h0.Host, dst, i, tracer.MaxHops)
              THEN /\ pc' = "ping"
                   /\ i' = i
                   /\ w' = [t \in DOMAIN hs |-> Locals(tracer.Timeout)]
                   /\ probe' = [t \in DOMAIN hs |-> NoProbe]
              ELSE /\ pc' = pc
                   /\ i' = i + 1
                   /\ UNCHANGED <<w, probe>>
    /\ UNCHANGED <<config, callbacks, routes, answers, report, err>>

(***************************************************************************)
(* Probing                                                                 *)
(***************************************************************************)
\* ping(): a session error or a send error returns (nil, err), a reply
\* (r, nil), the timeout (nil, nil)
ping(out) ==
    [rp  |-> IF out.kind = "reply" THEN [IP |-> out.IP, RTT |-> out.RTT] ELSE NoReply,
     err |-> IF out.kind = "error" THEN "error" ELSE "nil"]

\* err == nil && rp != nil
Answered(r) == r.err = "nil" /\ r.rp # NoReply

\* the outcomes a probe can have when n probes were answered before
Outcomes(n) == IF n < MaxAnswers THEN PingOutcomes ELSE {o \in PingOutcomes : o.kind # "reply"}
\* the outcome out is what the transport gives the probe p
Heard(out, p) == IF net.fixed THEN out = net.f[p.ttl] ELSE TRUE
Counted(n, out) == IF out.kind = "reply" THEN n + 1 ELSE n

\* Sent without the increment
SentNot(h) == h

\* hup.Snt++
Sent(h) == [h EXCEPT !.Snt = @ + 1]

\* hup.Avg = (hup.Avg*(hup.Snt-1) + rtt) / hup.Snt
RunningAvg(avg, snt, rtt, fused) ==
    FEval(avg, IF fused THEN <<MulAdd(snt - 1, rtt), Div(snt)>>
                        ELSE <<Mul(snt - 1), Add(rtt), Div(snt)>>)

\* the statistics update of a hop record on a reply with round trip rtt
UpdateStats(h, rtt, fused) ==
    [h EXCEPT !.Last = rtt,
              !.Avg  = RunningAvg(h.Avg, h.Snt, rtt, fused),
              !.Best = IF FLess(rtt, h.Best) THEN rtt ELSE h.Best,
              !.Wrst = IF FLess(h.Wrst, rtt) THEN rtt ELSE h.Wrst]

\* Lost that also clears the last round trip
LostReset(h) == [h EXCEPT !.LossPoint = @ + 1, !.Last = FZero]

\* hup.LossPoint++
Lost(h) == [h EXCEPT !.LossPoint = @ + 1]

\* if to < time.Second*5 { to += time.Second }
Backoff(to) == IF to < 5 * Second THEN to + Second ELSE to

\* ToComeback without the scan: every responder is adopted
ToComebackAll(hs, rp) == TRUE

\* the scan of the hop table for the responder's address
ToComeback(hs, rp) == \A t \in DOMAIN hs : hs[t].Host # IPString(rp.IP)

\* comeback = true; workTimeout = to; hup.Host = rp.IP.String(); statistics
AdoptHup(h, rp, fused) ==
    UpdateStats([h EXCEPT !.Host = IPString(rp.IP)], RttMs(rp.RTT), fused)
\* AdoptLocals without the assignment workTimeout = to
AdoptLocalsBase(l) == [l EXCEPT !.comeback = TRUE]
AdoptLocals(l) == [l EXCEPT !.comeback = TRUE, !.workTimeout = l.to]

Probe(l, ip, ttl, timeout, api, out) ==
    [j |-> l.j, ip |-> ip, ttl |-> ttl, timeout |-> timeout, api |-> api,
     res |-> out.kind, from |-> out.IP]

\* the probe of a hop whose Host is known
KnownProbe(o, h, l, maxHops, timeout, out) ==
    IF l.comeback
    THEN Probe(l, h.Host, h.Count, l.workTimeout,
               IF o = OpPkg THEN "Tracer.StaticTrace" ELSE "ping", out)
    ELSE Probe(l, h.Host, maxHops, timeout,
               IF o = OpPkg THEN "Tracer.Ping" ELSE "ping", out)

\* the probe of the destination at the TTL of a hop whose Host is "???"
DstProbe(o, h, l, d, out) ==
    Probe(l, IPString(ParseIP(d)), h.Count, l.to,
          IF o = OpPkg THEN "Tracer.StaticTrace" ELSE "ping", out)

\* the branch hup.Host != "???" of an iteration; h has Snt incremented
BranchA(h, out, fused) ==
    IF Answered(ping(out))
    THEN UpdateStats(h, RttMs(ping(out).rp.RTT), fused)
    ELSE Lost(h)

\* j++ at the end of an iteration, retryTime++ at the end of a retry
NextJ(l) == [l EXCEPT !.j = @ + 1]
Retried(l) == [l EXCEPT !.retryTime = @ + 1]
\* if retryTime >= 4 { continue }
RetryCap == 4
\* GivenUp with retryTime > 4
GivenUpLate(l) == l.retryTime > RetryCap
GivenUp(l) == l.retryTime >= RetryCap

\* LastJ with the bound j <= PingCount
LastJAll(count) == count

\* for j := 1; j <= PingCount-1; j++
LastJ(count) == count - 1

\* the hops are probed one after the other, or each by its own goroutine
Turn(h) == Concurrent(op) \/ \A g \in 1..(h - 1) : w[g].pc = "done"

InLoop(h) ==
    /\ pc = "ping"
    /\ h \in DOMAIN hups
    /\ w[h].pc = "loop"
    /\ w[h].j <= LastJ(PingCount)
    /\ Turn(h)

\* an iteration on a hop whose Host is known
KnownIter(h, hup, l, out) ==
    /\ hups' = [hups EXCEPT ![h] = BranchA(hup, out, fma)]
    /\ probe' = [probe EXCEPT ![h] =
           KnownProbe(op, hup, l, tracer.MaxHops, tracer.Timeout, out)]
    /\ Heard(out, probe'[h])
    /\ w' = [w EXCEPT ![h] = NextJ(l)]
    /\ answers' = Counted(answers, out)
    /\ good' = IF Answered(ping(out))
               THEN [good EXCEPT ![h] = Good(@, ping(out).rp.RTT)]
               ELSE good

\* an iteration that issues no probe
IdleIter(h, hup, l) ==
    /\ hups' = [hups EXCEPT ![h] = hup]
    /\ w' = [w EXCEPT ![h] = NextJ(l)]
    /\ UNCHANGED <<probe, answers, good>>

\* a retry that adopts the responder
AdoptIter(h, hup, l, out) ==
    /\ hups' = [hups EXCEPT ![h] = AdoptHup(hup, ping(out).rp, fma)]
    /\ probe' = [probe EXCEPT ![h] = DstProbe(op, hup, l, dst, out)]
    /\ Heard(out, probe'[h])
    /\ w' = [w EXCEPT ![h] = NextJ(Retried(AdoptLocals(l)))]
    /\ answers' = Counted(answers, out)
    /\ good' = [good EXCEPT ![h] = Good(@, ping(out).rp.RTT)]

\* a retry without a reply, or with a reply that is not adopted
LostIter(h, hup, l, out) ==
    /\ hups' = [hups EXCEPT ![h] = Lost(hup)]
    /\ probe' = [probe EXCEPT ![h] = DstProbe(op, hup, l, dst, out)]
    /\ Heard(out, probe'[h])
    /\ w' = [w EXCEPT ![h] = NextJ(Retried([l EXCEPT !.to = Backoff(@)]))]
    /\ answers' = Counted(answers, out)
    /\ good' = good

\* one iteration of the inner loop of OPMTR.RunMTRWithNoRetryPing
PingNoRetry(h) ==
    /\ op = OpNoRetry
    /\ InLoop(h)
    /\ IF hups[h].Host # UnknownHost
       THEN \E out \in Outcomes(answers) : KnownIter(h, Sent(hups[h]), w[h], out)
       ELSE IdleIter(h, Sent(hups[h]), w[h])
    /\ UNCHANGED <<config, callbacks, pc, routes, i, unknownCount, report, err>>

\* one iteration of the inner loop of OPMTR.RunMTR
PingSeq(h) ==
    /\ op = OpSeq
    /\ InLoop(h)
    /\ IF hups[h].Host # UnknownHost
       THEN \E out \in Outcomes(answers) : KnownIter(h, Sent(hups[h]), w[h], out)
       ELSE IF GivenUp(w[h])
       THEN IdleIter(h, Sent(hups[h]), w[h])
       ELSE \E out \in Outcomes(answers) :
               IF Answered(ping(out)) /\ ToComeback(hups, ping(out).rp)
               THEN AdoptIter(h, Sent(hups[h]), w[h], out)
               ELSE LostIter(h, Sent(hups[h]), w[h], out)
    /\ UNCHANGED <<config, callbacks, pc, routes, i, unknownCount, report, err>>

\* one iteration of a worker of OPMTR.RunMTRWithCocurrentPing, up to the end
\* of its scan of the hop table; the writes of an adoption are WorkerAdopt.
\* A scan that overlaps the writes of other workers sees what a scan at its
\* start or a scan at its end sees, since a Host is written once.
PingConc(h) ==
    /\ op = OpConc
    /\ InLoop(h)
    /\ IF hups[h].Host # UnknownHost
       THEN \E out \in Outcomes(answers) : KnownIter(h, Sent(hups[h]), w[h], out)
       ELSE IF GivenUp(w[h])
       THEN IdleIter(h, Sent(hups[h]), w[h])
       ELSE \E out \in Outcomes(answers) :
               IF Answered(ping(out)) /\ ToComeback(hups, ping(out).rp)
               THEN /\ hups' = [hups EXCEPT ![h] = Sent(@)]
                    /\ probe' = [probe EXCEPT ![h] = DstProbe(op, Sent(hups[h]), w[h], dst, out)]
                    /\ Heard(out, probe'[h])
                    /\ w' = [w EXCEPT ![h] = [@ EXCEPT !.pc = "adopt", !.rp = ping(out).rp]]
                    /\ answers' = Counted(answers, out)
                    /\ good' = good
               ELSE LostIter(h, Sent(hups[h]), w[h], out)
    /\ UNCHANGED <<config, callbacks, pc, routes, i, unknownCount, report, err>>

\* the worker writes the adopted responder into its record
WorkerAdopt(h) ==
    /\ pc = "ping"
    /\ h \in DOMAIN hups
    /\ w[h].pc = "adopt"
    /\ hups' = [hups EXCEPT ![h] = AdoptHup(@, w[h].rp, fma)]
    /\ w' = [w EXCEPT ![h] =
           NextJ(Retried([AdoptLocals(@) EXCEPT !.pc = "loop", !.rp = NoReply]))]
    /\ good' = [good EXCEPT ![h] = Good(@, w[h].rp.RTT)]
    /\ UNCHANGED <<config, callbacks, pc, routes, i, unknownCount, probe, answers, report, err>>

\* one iteration of a worker of RunMTR (mtr/mtr.go): every reply is adopted
PingPkg(h) ==
    /\ op = OpPkg
    /\ InLoop(h)
    /\ IF hups[h].Host # UnknownHost
       THEN \E out \in Outcomes(answers) : KnownIter(h, Sent(hups[h]), w[h], out)
       ELSE IF GivenUp(w[h])
       THEN IdleIter(h, Sent(hups[h]), w[h])
       ELSE \E out \in Outcomes(answers) :
               IF Answered(ping(out))
               THEN AdoptIter(h, Sent(hups[h]), w[h], out)
               ELSE LostIter(h, Sent(hups[h]), w[h], out)
    /\ UNCHANGED <<config, callbacks, pc, routes, i, unknownCount, report, err>>

\* FinalLoss without the guard hup.Host != "???"
FinalLossAll(h) == [h EXCEPT !.Loss = LossOf(h)]

\* after the inner loop: if hup.Host != "???" { hup.Loss = LossPoint / Snt }
FinalLoss(h) == IF h.Host # UnknownHost THEN [h EXCEPT !.Loss = LossOf(h)] ELSE h

\* LoopExit that recomputes the Loss of every hop
LoopExitAll(h) ==
    /\ pc = "ping"
    /\ h \in DOMAIN hups
    /\ w[h].pc = "loop"
    /\ w[h].j > LastJ(PingCount)
    /\ Turn(h)
    /\ hups' = [g \in DOMAIN hups |-> FinalLoss(hups[g])]
    /\ w' = [w EXCEPT ![h] = DoneLocals]
    /\ probe' = [probe EXCEPT ![h] = NoProbe]
    /\ UNCHANGED <<config, callbacks, good, pc, routes, i, unknownCount, answers, report, err>>

\* the worker leaves its loop
LoopExit(h) ==
    /\ pc = "ping"
    /\ h \in DOMAIN hups
    /\ w[h].pc = "loop"
    /\ w[h].j > LastJ(PingCount)
    /\ Turn(h)
    /\ hups' = [hups EXCEPT ![h] = FinalLoss(@)]
    /\ w' = [w EXCEPT ![h] = DoneLocals]
    /\ probe' = [probe EXCEPT ![h] = NoProbe]
    /\ UNCHANGED <<config, callbacks, good, pc, routes, i, unknownCount, answers, report, err>>

(***************************************************************************)
(* Report                                                                  *)
(***************************************************************************)
\* Wait that does not wait for the workers
WaitEarly ==
    /\ pc = "ping"
    /\ pc' = "report"
    /\ UNCHANGED <<config, callbacks, good, routes, hups, i, unknownCount, w, probe, answers, report, err>>

\* the outer loop has ended (wg.Wait() has returned)
Wait ==
    /\ pc = "ping"
    /\ \A h \in DOMAIN hups : w[h].pc = "done"
    /\ pc' = "report"
    /\ UNCHANGED <<config, callbacks, good, routes, hups, i, unknownCount, w, probe, answers, report, err>>

\* HupIndex counting down from the last key
HupIndexDown(n) == hupsLen - n

\* for i := 1; i <= hupsLen; i++ { v := hups[i]; ... }: the key of the
\* record appended when n records are in the report
HupIndex(n) == n + 1

\* report.Hups = append(report.Hups, *v)
AppendHup ==
    /\ pc = "report"
    /\ Len(report.Hups) < hupsLen
    /\ report' = [report EXCEPT !.Hups = Append(@, hups[HupIndex(Len(@))])]
    /\ UNCHANGED <<config, callbacks, good, pc, routes, hups, i, unknownCount, w, probe, answers, err>>

\* return report, nil
Return ==
    /\ pc = "report"
    /\ Len(report.Hups) >= hupsLen
    /\ pc' = "done"
    /\ UNCHANGED <<config, callbacks, good, routes, hups, i, unknownCount, w, probe, answers, report, err>>

Next ==
    \/ Start
    \/ TraceReply
    \/ TraceCall
    \/ TraceStore
    \/ TraceFail
    \/ TraceDone
    \/ Discover
    \/ \E h \in 1..MaxHopsBound : PingNoRetry(h)
    \/ \E h \in 1..MaxHopsBound : PingSeq(h)
    \/ \E h \in 1..MaxHopsBound : PingConc(h)
    \/ \E h \in 1..MaxHopsBound : WorkerAdopt(h)
    \/ \E h \in 1..MaxHopsBound : PingPkg(h)
    \/ \E h \in 1..MaxHopsBound : LoopExit(h)
    \/ Wait
    \/ AppendHup
    \/ Return

Spec == Init /\ [][Next]_vars

\* the concurrent variants; the base timeout, the fused arithmetic and the
\* fixed transport have no part in whether a run ends
ConcPings == 3
ConcInit ==
    /\ Init
    /\ Concurrent(op)
    /\ PingCount <= ConcPings
    /\ MaxUnknowns = MaxUnknownsBound
    /\ tracer.Timeout = Second
    /\ ~fma
    /\ ~net.fixed
ConcNext ==
    \/ Start
    \/ TraceReply
    \/ TraceCall
    \/ TraceStore
    \/ TraceFail
    \/ TraceDone
    \/ Discover
    \/ \E h \in 1..MaxHopsBound : PingConc(h)
    \/ \E h \in 1..MaxHopsBound : WorkerAdopt(h)
    \/ \E h \in 1..MaxHopsBound : PingPkg(h)
    \/ \E h \in 1..MaxHopsBound : LoopExit(h)
    \/ Wait
    \/ AppendHup
    \/ Return
\* every probe call returns and the scheduler runs every goroutine that can
\* run: a step is taken whenever one is possible
ConcSpec == ConcInit /\ [][ConcNext]_vars /\ WF_vars(ConcNext)

(***************************************************************************)
(* Properties                                                              *)
(***************************************************************************)
\* a run has returned its report with a nil error
Returned == pc = "done" /\ err = "nil"
One == FFromInt(1)
ReportLen == Len(report.Hups)
\* the hop at TTL t got no reply in the trace and has a Host in the report
Recovered(h, t) == h.Host # UnknownHost /\ t \notin DOMAIN routes

\* the trace replies end the path at TTL t: the destination answered at t,
\* or t is the last of max_unknowns TTLs in a row without a reply
StopAt(t) ==
    \/ t \in DOMAIN routes /\ routes[t].IP = dstIP
    \/ t >= MaxUnknowns /\ \A u \in (t - MaxUnknowns + 1)..t : u \notin DOMAIN routes
PathLen ==
    IF \E t \in 1..tracer.MaxHops : StopAt(t)
    THEN CHOOSE t \in 1..tracer.MaxHops : StopAt(t) /\ \A u \in 1..(t - 1) : ~StopAt(u)
    ELSE tracer.MaxHops

\* C1: when discovery has ended, the hop table holds exactly the TTLs 1..N,
\* N the smallest TTL whose retained reply has the destination IP or that
\* ends max_unknowns TTLs without a reply, and max_hops when there is none.
\* Stated of every run operation, RunMTR of mtr/mtr.go included.
C1_HopTable == pc = "ping" => DOMAIN hups = 1..PathLen

\* C1, of the three methods of OPMTR alone: the same statement
C1_Methods == (pc = "ping" /\ op # OpPkg) => DOMAIN hups = 1..PathLen

\* the destination answered at TTL 1 and discovery went on
C1_Witness ==
    /\ pc = "ping"
    /\ op = OpPkg
    /\ 1 \in DOMAIN routes
    /\ routes[1].IP = dstIP
    /\ DOMAIN hups = 1..3

\* C2 as amended: in every report returned without error the last hop has
\* the destination IP as its Host, or the report has max_hops hops, or the
\* last max_unknowns hops got no reply in the trace.
C2_LastHop ==
    Returned =>
        /\ ReportLen >= 1
        /\ \/ report.Hups[ReportLen].Host = IPString(dstIP)
           \/ ReportLen = tracer.MaxHops
           \/ /\ ReportLen >= MaxUnknowns
              /\ \A u \in (ReportLen - MaxUnknowns + 1)..ReportLen : u \notin DOMAIN routes

\* a report cut off by two hops without a reply, short of max_hops
C2_Witness ==
    /\ Returned
    /\ ReportLen = 2
    /\ tracer.MaxHops = 3
    /\ MaxUnknowns = 2
    /\ report.Hups[1].Host = UnknownHost
    /\ report.Hups[2].Host = UnknownHost

\* C2 as the specification has it: in every report returned without error
\* the last hop has the destination as its Host, or the report ends with
\* max_unknowns hops whose Host is "???".
C2_Original ==
    Returned =>
        /\ ReportLen >= 1
        /\ \/ report.Hups[ReportLen].Host = IPString(dstIP)
           \/ /\ ReportLen >= MaxUnknowns
              /\ \A u \in (ReportLen - MaxUnknowns + 1)..ReportLen :
                    report.Hups[u].Host = UnknownHost

\* C3: the report has the hop with Count = k at position k, for every k up
\* to its length, and at most max_hops hops, whatever the order in which the
\* workers ran and ended.
C3_Order ==
    /\ ReportLen <= tracer.MaxHops
    /\ \A k \in 1..ReportLen : report.Hups[k].Count = k

\* a concurrent run over two hops, each probed once, has returned
C3_Witness ==
    /\ Returned
    /\ op = OpConc
    /\ PingCount = 2
    /\ ReportLen = 2

\* C4: every hop of a report whose Host is "???" has Loss = 1.0 and
\* Last = Avg = Best = Wrst = 0, whatever its counters have come to.
C4_Unknown ==
    \A k \in 1..ReportLen :
        report.Hups[k].Host = UnknownHost =>
            /\ report.Hups[k].Loss = One
            /\ report.Hups[k].Last = FZero
            /\ report.Hups[k].Avg = FZero
            /\ report.Hups[k].Best = FZero
            /\ report.Hups[k].Wrst = FZero

\* an unknown hop reported after four failed retries and an iteration
\* skipped by the retry cap
C4_Witness ==
    /\ Returned
    /\ op = OpSeq
    /\ PingCount = 6
    /\ \E k \in 1..ReportLen :
          /\ report.Hups[k].Host = UnknownHost
          /\ report.Hups[k].Snt = 6
          /\ report.Hups[k].LossPoint = 5

InRange(h) ==
    /\ 0 <= h.LossPoint
    /\ h.LossPoint <= h.Snt
    /\ h.Snt >= 1
    /\ FLeq(FZero, h.Loss)
    /\ FLeq(h.Loss, One)

\* C5: in every state every hop record, of the hop table and of the report,
\* has 0 <= LossPoint <= Snt, Snt >= 1 and a Loss in [0, 1].
C5_Counters ==
    /\ \A t \in DOMAIN hups : InRange(hups[t])
    /\ \A k \in 1..ReportLen : InRange(report.Hups[k])

\* a recovered hop reported with lost probes before and after its recovery
C5_Witness ==
    /\ Returned
    /\ \E k \in 1..ReportLen :
          /\ Recovered(report.Hups[k], k)
          /\ report.Hups[k].LossPoint = 3
          /\ report.Hups[k].Snt = 5
          /\ FLess(FZero, report.Hups[k].Loss)
          /\ FLess(report.Hups[k].Loss, One)

Ordered(h) ==
    /\ FLeq(h.Best, h.Avg)
    /\ FLeq(h.Avg, h.Wrst)
    /\ FLeq(h.Best, h.Last)
    /\ FLeq(h.Last, h.Wrst)

\* C6: in every report every hop with a Host other than "???" has
\* Best <= Avg <= Wrst and Best <= Last <= Wrst.
C6_Ordered ==
    Returned =>
        \A k \in 1..ReportLen :
            report.Hups[k].Host # UnknownHost => Ordered(report.Hups[k])

\* a probe is issued for hop h in this step
Issued(h) == probe'[h] # probe[h] /\ probe'[h].res # "none"
Failed(h) == Issued(h) /\ probe'[h].res \in {"timeout", "error"}

C7_Step ==
    /\ \A h \in DOMAIN probe :
          Failed(h) => hups'[h] = [hups[h] EXCEPT !.Snt = @ + 1, !.LossPoint = @ + 1]
    /\ pc \notin {"start", "trace"} => err' = "nil"
    /\ pc' = "done" /\ pc = "report" =>
          /\ Len(report'.Hups) = Cardinality(DOMAIN hups')
          /\ DOMAIN hups' = 1..Len(report'.Hups)
          /\ DOMAIN hups' # {}

\* C7: after the trace has succeeded no step sets the error and the run
\* returns a report with all hops of the hop table; a probe that times out
\* or fails in the transport adds one to the hop's LossPoint (and one to its
\* Snt, as every iteration does) and leaves the rest of its record alone.
C7_Failures == [][C7_Step]_vars

\* the third probe of a hop with a Host has ended in a transport error, the
\* second loss of that hop
C7_Witness ==
    /\ pc = "ping"
    /\ \E h \in DOMAIN probe :
          /\ probe[h].res = "error"
          /\ hups[h].Host # UnknownHost
          /\ hups[h].LossPoint = 2
          /\ hups[h].Snt = 4

DiscoveryRecord(t) ==
    IF t \in DOMAIN routes
    THEN [Count |-> t, Host |-> IPString(routes[t].IP), Loss |-> FZero,
          LossPoint |-> 0, Snt |-> 1, Last |-> RttMs(routes[t].RTT),
          Avg |-> RttMs(routes[t].RTT), Best |-> RttMs(routes[t].RTT),
          Wrst |-> RttMs(routes[t].RTT)]
    ELSE [Count |-> t, Host |-> UnknownHost, Loss |-> One, LossPoint |-> 1,
          Snt |-> 1, Last |-> FZero, Avg |-> FZero, Best |-> FZero, Wrst |-> FZero]

\* C8: a hop in its loop has Snt equal to the iteration it is about to run,
\* and the probe it last issued is of an earlier iteration, so ping_count - 1
\* iterations give every reported hop Snt = ping_count; with ping_count = 1
\* no probe is issued and the report holds the records built by discovery.
C8_Sent ==
    /\ \A h \in DOMAIN w :
          /\ w[h].pc = "loop" =>
                /\ hups[h].Snt = w[h].j
                /\ w[h].j <= PingCount
                /\ probe[h].j < w[h].j
          /\ PingCount = 1 => probe[h] = NoProbe
    /\ Returned =>
          \A k \in 1..ReportLen :
              /\ report.Hups[k].Snt = PingCount
              /\ PingCount = 1 => report.Hups[k] = DiscoveryRecord(k)

\* a report of three-probe hops, one known since discovery and one recovered
C8_Witness ==
    /\ Returned
    /\ PingCount = 3
    /\ ReportLen = 2
    /\ 1 \in DOMAIN routes
    /\ Recovered(report.Hups[2], 2)
    /\ report.Hups[2].Snt = 3

\* hop h is probed in Branch B in this step
Retry(h) == Issued(h) /\ hups[h].Host = UnknownHost
Known(hs, ip) == \E g \in DOMAIN hs : hs[g].Host = IPString(ip)
\* the record and the variables of hop h after the adoption of ip
Adopts(h, ip) ==
    /\ hups'[h].Host = IPString(ip)
    /\ w'[h].comeback
    /\ w'[h].workTimeout = w[h].to

C9_Step(h) ==
    /\ Retry(h) =>
          /\ probe'[h].ip = IPString(dstIP)
          /\ probe'[h].ttl = h
          /\ probe'[h].timeout = w[h].to
    /\ Retry(h) /\ probe'[h].res = "reply" /\ ~Known(hups, probe'[h].from) =>
          IF op = OpSeq
          THEN Adopts(h, probe'[h].from)
          ELSE w'[h].pc = "adopt" /\ w'[h].rp.IP = probe'[h].from
    /\ w[h].pc = "adopt" /\ w'[h] # w[h] => Adopts(h, w[h].rp.IP)
    /\ hups[h].Host # UnknownHost => hups'[h].Host = hups[h].Host
    /\ Recovered(hups[h], h) /\ w[h].pc = "loop" => w[h].comeback
    /\ w[h].comeback /\ w'[h].pc = "loop" =>
          w'[h].comeback /\ w'[h].workTimeout = w[h].workTimeout
    /\ Issued(h) /\ w[h].comeback =>
          /\ probe'[h].ip = hups[h].Host
          /\ probe'[h].ttl = h
          /\ probe'[h].timeout = w[h].workTimeout
    /\ Issued(h) /\ h \in DOMAIN routes =>
          /\ probe'[h].ip = hups[h].Host
          /\ probe'[h].ttl = tracer.MaxHops
          /\ probe'[h].timeout = tracer.Timeout

C9_Steps == op \in {OpSeq, OpConc} => \A h \in DOMAIN w : C9_Step(h)
C9_Away ==
    op \in {OpSeq, OpConc} =>
        \A h \in DOMAIN w :
            Issued(h) /\ w[h].comeback => probe'[h].ip # IPString(dstIP)

\* C9 as amended: in OPMTR.RunMTR and OPMTR.RunMTRWithCocurrentPing a probe
\* of an unknown hop goes to (dst, hop index, to); when its responder is no
\* hop's Host the hop takes the responder as its Host with comeback set and
\* workTimeout = to; a Host once set is never changed, comeback and
\* workTimeout stay as they are, and every later probe of the hop goes to
\* (Host, hop index, workTimeout), which is the destination's address again
\* when the responder was the destination; a hop known since discovery is
\* probed with (Host, MaxHops, base timeout).
C9_Comeback == [][C9_Steps]_vars

\* a recovered hop probed again with the timeout its recovery was made at
C9_Witness ==
    /\ op \in {OpSeq, OpConc}
    /\ \E h \in DOMAIN w :
          /\ w[h].comeback
          /\ probe[h].j > w[h].retryTime
          /\ probe[h].ip = hups[h].Host
          /\ probe[h].ttl = h
          /\ probe[h].timeout = 2 * Second
          /\ w[h].workTimeout = 2 * Second
          /\ tracer.Timeout = Second

\* C9 as the specification has it: the same, and no probe of a recovered
\* hop goes to the destination.
C9_Original == [][C9_Steps /\ C9_Away]_vars

C10_Step(h) ==
    /\ Retry(h) /\ probe'[h].res = "reply" /\ Known(hups, probe'[h].from) =>
          /\ hups'[h] = [hups[h] EXCEPT !.Snt = @ + 1, !.LossPoint = @ + 1]
          /\ hups'[h].Host = UnknownHost
          /\ hups'[h].Last = FZero /\ hups'[h].Avg = FZero
          /\ hups'[h].Best = FZero /\ hups'[h].Wrst = FZero
          /\ w'[h].to = (IF w[h].to < 5 * Second THEN w[h].to + Second ELSE w[h].to)
          /\ w'[h].retryTime = w[h].retryTime + 1
          /\ ~w'[h].comeback
    /\ hups[h].Host = UnknownHost /\ hups'[h].Host # UnknownHost =>
          \A g \in DOMAIN hups \ {h} : hups'[g].Host # hups'[h].Host

C10_Steps == op = OpSeq => \A h \in DOMAIN w : C10_Step(h)

C11_Atomic ==
    (Returned /\ op = OpConc) =>
        \A k \in 1..ReportLen :
            Recovered(report.Hups[k], k) =>
                \A g \in 1..ReportLen :
                    g # k => report.Hups[g].Host # report.Hups[k].Host

\* the hop table discovery builds from the trace replies
Discovered == [t \in 1..PathLen |-> DiscoveryRecord(t)]

\* one iteration of the loop of OPMTR.RunMTR on hop h under the transport f:
\* the record and the variables of the hop after it
SeqIter(hs, h, l, f) ==
    IF hs[h].Host # UnknownHost
    THEN [hup |-> BranchA(Sent(hs[h]),
                          f[IF l.comeback THEN hs[h].Count ELSE tracer.MaxHops], fma),
          l |-> NextJ(l)]
    ELSE IF GivenUp(l)
    THEN [hup |-> Sent(hs[h]), l |-> NextJ(l)]
    ELSE IF Answered(ping(f[hs[h].Count])) /\ ToComeback(hs, ping(f[hs[h].Count]).rp)
    THEN [hup |-> AdoptHup(Sent(hs[h]), ping(f[hs[h].Count]).rp, fma),
          l |-> NextJ(Retried(AdoptLocals(l)))]
    ELSE [hup |-> Lost(Sent(hs[h])),
          l |-> NextJ(Retried([l EXCEPT !.to = Backoff(@)]))]

\* the hop table OPMTR.RunMTR ends with, from hop h at the variables l on
RECURSIVE SeqLoop(_, _, _, _)
SeqStep(hs, h, r, f) == SeqLoop([hs EXCEPT ![h] = r.hup], h, r.l, f)
SeqLoop(hs, h, l, f) ==
    IF h > Cardinality(DOMAIN hs)
    THEN hs
    ELSE IF l.j > LastJ(PingCount)
    THEN SeqLoop([hs EXCEPT ![h] = FinalLoss(@)], h + 1, Locals(tracer.Timeout), f)
    ELSE SeqStep(hs, h, SeqIter(hs, h, l, f), f)
SeqHups == SeqLoop(Discovered, 1, Locals(tracer.Timeout), net.f)

SameCounts(a, b) ==
    /\ a.Host = b.Host
    /\ a.Snt = b.Snt
    /\ a.LossPoint = b.LossPoint
    /\ a.Loss = b.Loss

\* C12: under a transport whose answers are a fixed function of the probe,
\* every report of OPMTR.RunMTRWithCocurrentPing has, hop by hop, the Host,
\* Snt, LossPoint and Loss of the report OPMTR.RunMTR gives for the same
\* trace replies.
C12_Same ==
    (Returned /\ op = OpConc /\ net.fixed) =>
        /\ ReportLen = Cardinality(DOMAIN SeqHups)
        /\ \A k \in 1..ReportLen : SameCounts(report.Hups[k], SeqHups[k])

\* SeqHups is the hop table of OPMTR.RunMTR: its report is that table
C12_Sequential ==
    (Returned /\ op = OpSeq /\ net.fixed) =>
        /\ ReportLen = Cardinality(DOMAIN SeqHups)
        /\ \A k \in 1..ReportLen : report.Hups[k] = SeqHups[k]

\* a run of OPMTR.RunMTR under a fixed transport that rejected a duplicate
C12_Witness ==
    /\ Returned
    /\ op = OpSeq
    /\ net.fixed
    /\ ReportLen = 2
    /\ Recovered(report.Hups[1], 1)
    /\ report.Hups[2].Host = UnknownHost
    /\ report.Hups[2].LossPoint = 2

C13_Step(h) ==
    /\ w[h].pc \in {"loop", "adopt"} =>
          /\ w[h].retryTime <= 4
          /\ hups[h].Host = UnknownHost /\ op # OpNoRetry =>
                hups[h].LossPoint = 1 + w[h].retryTime
    /\ Retry(h) =>
          /\ op # OpNoRetry
          /\ w[h].retryTime < 4
          /\ w'[h].pc = "adopt" \/ w'[h].retryTime = w[h].retryTime + 1
    /\ /\ hups[h].Host = UnknownHost
       /\ w[h].pc = "loop" /\ w'[h].pc = "loop" /\ w'[h] # w[h]
       /\ w[h].retryTime >= 4
       => /\ probe'[h] = probe[h]
          /\ hups'[h] = [hups[h] EXCEPT !.Snt = @ + 1]
          /\ hups[h].LossPoint = 5
          /\ w'[h] = [w[h] EXCEPT !.j = @ + 1]
C13_Steps == \A h \in DOMAIN w : C13_Step(h)

\* C13: every Branch B probe of a hop is made with retryTime below 4 and
\* raises it by one (when the worker has finished the adoption, in the
\* concurrent variant), so a hop gets at most 4 of them; an unknown hop has
\* LossPoint = 1 + retryTime; an iteration on an unknown hop with
\* retryTime = 4 issues no probe, adds one to Snt and leaves LossPoint at 5.
C13_RetryCap == [][C13_Steps]_vars

\* an unknown hop after four failed retries and one iteration without a probe
C13_Witness ==
    /\ pc = "ping"
    /\ \E h \in DOMAIN w :
          /\ w[h].pc = "loop"
          /\ hups[h].Host = UnknownHost
          /\ w[h].retryTime = 4
          /\ w[h].j = 6
          /\ hups[h].Snt = 6
          /\ hups[h].LossPoint = 5
          /\ probe[h].j = 4

\* max(base_timeout, 5s)
TimeoutCap == IF tracer.Timeout > 5 * Second THEN tracer.Timeout ELSE 5 * Second

C14_Step(h) ==
    /\ w[h].pc \in {"loop", "adopt"} =>
          /\ w[h].to >= tracer.Timeout
          /\ w[h].to <= TimeoutCap
          /\ w[h].workTimeout <= TimeoutCap
    /\ w[h].pc = "loop" /\ w'[h].pc = "loop" =>
          \/ w'[h].to = w[h].to
          \/ w'[h].to = w[h].to + Second
    /\ Issued(h) => probe'[h].timeout <= TimeoutCap
C14_Steps == \A h \in DOMAIN w : C14_Step(h)

\* C14: for every base timeout, to starts at the base timeout, a step leaves
\* it alone or adds exactly 1s to it, and to, workTimeout and every timeout
\* passed to a probe are at most max(base_timeout, 5s).
C14_Cap == [][C14_Steps]_vars

C15_Step(h) ==
    /\ hups[h].Host = UnknownHost => hups'[h].Host = UnknownHost /\ probe'[h] = probe[h]
    /\ hups[h].Host = UnknownHost /\ w[h].pc = "loop" /\ w'[h].pc = "loop" /\ w'[h] # w[h] =>
          /\ hups'[h].Snt = hups[h].Snt + 1
          /\ hups'[h].LossPoint = hups[h].LossPoint + 1
C15_Steps == op = OpNoRetry => \A h \in DOMAIN w : C15_Step(h)

\* C15: in OPMTR.RunMTRWithNoRetryPing a hop that is unknown after discovery
\* is never probed and keeps Host "???", and each iteration of its loop adds
\* one to its Snt and one to its LossPoint.
C15_NoRetry == [][C15_Steps]_vars


Succeeded(h) == h \in DOMAIN good /\ good[h].n > 0
\* C16: at the end of the run every hop with a successful probe has Best the
\* least and Wrst the greatest round trip of its successful probes, and Last
\* the round trip of the latest one, recovered hops included.
C16_Extremes ==
    Returned =>
        \A h \in DOMAIN hups :
            Succeeded(h) =>
                /\ hups[h].Best = RttMs(good[h].min)
                /\ hups[h].Wrst = RttMs(good[h].max)
                /\ hups[h].Last = RttMs(good[h].last)
\* the same for the hops known since discovery, and Wrst and Last for all
C16_Known ==
    Returned =>
        \A h \in DOMAIN hups :
            Succeeded(h) =>
                /\ h \in DOMAIN routes => hups[h].Best = RttMs(good[h].min)
                /\ hups[h].Wrst = RttMs(good[h].max)
                /\ hups[h].Last = RttMs(good[h].last)

\* the mean of round trips of sum s nanoseconds over n probes, in milliseconds
MeanMs(s, n) == FEval(FFromInt(s), <<Div(n), Div(1000), Div(1000)>>)
\* x is the mean of the round trips g to within a nanosecond
Near(x, g) == FLeq(MeanMs(g.sum - g.n, g.n), x) /\ FLeq(x, MeanMs(g.sum + g.n, g.n))
\* C17: at the end of the run every hop with a successful probe has Avg the
\* arithmetic mean of the round trips of its successful probes, whatever the
\* interleaving of successful and lost probes.
C17_Mean ==
    Returned => \A h \in DOMAIN hups : Succeeded(h) => Near(hups[h].Avg, good[h])
\* the same for the hops that never lost a probe
C17_NoLoss ==
    Returned =>
        \A h \in DOMAIN hups :
            Succeeded(h) /\ hups[h].LossPoint = 0 => Near(hups[h].Avg, good[h])

\* the worker of hop h has run its loop to the end and recomputed its Loss
Finished(h) ==
    /\ w[h].pc = "done"
    /\ hups[h].Snt = PingCount
    /\ hups[h].Host # UnknownHost => hups[h].Loss = LossOf(hups[h])
Joined == \A h \in DOMAIN hups : Finished(h)
\* a step of the run once the report is being assembled
C18_Steps ==
    Concurrent(op) =>
        /\ report'.Hups # report.Hups => Joined
        /\ pc \in {"report", "done"} => hups' = hups /\ w' = w
\* C18: in the concurrent variants the report is assembled only after every
\* worker has finished its PingCount-1 iterations and its final Loss, no hop
\* record is written once the assembly has begun, and, every probe call
\* returning, a run that has begun probing returns its report.
C18_Barrier ==
    /\ [][C18_Steps]_vars
    /\ [](Concurrent(op) /\ pc \in {"report", "done"} /\ err = "nil" => Joined)
    /\ (Concurrent(op) /\ pc = "ping" ~> Returned /\ ReportLen = hupsLen)
\* a report of a concurrent run on two hops or more, each probed twice or more
C18_Witness ==
    /\ Concurrent(op)
    /\ Returned
    /\ ReportLen >= 2
    /\ PingCount >= 2
    /\ Joined
    /\ \E h \in DOMAIN hups : hups[h].LossPoint > 0 /\ hups[h].Host # UnknownHost

\* the trace is over and its replies are in routes
Traced == pc \notin {"start", "trace"} /\ err = "nil"
Retained(t) ==
    /\ t \in DOMAIN routes
    /\ routes[t] = first[t]
    /\ t \in DOMAIN hups => hups[t].Host = IPString(first[t].IP)
\* C19: whatever the order of the trace callbacks, overlapping or not, the
\* reply retained for a TTL is the first one delivered for it, and the known
\* hop at that TTL carries that responder.
C19_First == Traced => \A t \in DOMAIN first : Retained(t)
\* the same when no two callbacks overlap
C19_Serial == ~overlap /\ Traced => \A t \in DOMAIN first : Retained(t)

\* a step of the probing phase of a concurrent run
C20_Steps ==
    Concurrent(op) /\ pc = "ping" /\ pc' = "ping" =>
        /\ DOMAIN hups' = DOMAIN hups
        /\ \E h \in DOMAIN hups :
              \A g \in DOMAIN hups \ {h} : hups'[g] = hups[g] /\ w'[g] = w[g]
\* C20: in the concurrent variants a step of the worker of a hop changes
\* that hop's record and that worker's local variables alone: the record
\* and the worker of every other hop, and the keys of the hop table, stay.
C20_OwnRecord == [][C20_Steps]_vars
\* two workers in their loops, each having run an iteration
C20_Witness ==
    /\ Concurrent(op)
    /\ pc = "ping"
    /\ \E h, g \in DOMAIN hups :
          /\ h # g
          /\ w[h].pc = "loop" /\ w[h].j > 1
          /\ w[g].pc = "loop" /\ w[g].j > 1

====
